---- MODULE Spec2Model ----
(***************************************************************************)
(* A model of scanarr's verification engine (src/scanarr/main.py):         *)
(* TrackerSearcher.search_tracker, get_torrent_name, matches_query,        *)
(* search_and_verify, search_and_verify_all and the part of main() that    *)
(* drives them.                                                            *)
(*                                                                         *)
(* Strings are sequences of one-character strings.  The delay is counted   *)
(* in whole seconds.  Every network call is one step of the model and its  *)
(* response is chosen at that step.  Variables whose names start with      *)
(* "h_" are history variables: they record what the program did and the    *)
(* program never reads them.                                               *)
(***************************************************************************)
EXTENDS Integers, Sequences, FiniteSets, TLC

\* ------------------------------------------------------------------ bounds
\* the longest list of items to search
MaxItems == 2
\* the largest number of results the backend puts in one response
MaxResults == 6
\* the largest number of indexers the backend reports in one response
MaxIndexers == 1
\* the largest --delay given on the command line
MaxDelayArg == 5
\* the longest query whose URL encoding is followed
MaxQueryLen == 3
\* the longest list given to filter_items_by_group
MaxFilterItems == 3
\* the longest list of excluded groups
MaxGroups == 2

\* ---------------------------------------------------------------- strings
Lower(c) ==
  CASE c = "A" -> "a"
    [] c = "B" -> "b"
    [] OTHER -> c

\* str.lower()
LowerStr(s) == [k \in 1..Len(s) |-> Lower(s[k])]

\* Python's `sub in s` on strings
IsIn(sub, s) ==
  \E k \in 0..(Len(s) - Len(sub)) : SubSeq(s, k + 1, k + Len(sub)) = sub

\* the directory entries a run can be given, in listing order
Pool == << <<"A", "b">>, <<"b", "a">>, <<"B">> >>

Min(a, b) == IF a < b THEN a ELSE b

ItemLists == { SubSeq(Pool, 1, n) : n \in 0..Min(MaxItems, Len(Pool)) }

\* the declared names a content descriptor can carry
Names == { <<>>, <<"x", "a", "B">> }

\* ------------------------------------------------------ backend responses
\* the Error field of one element of Indexers: "" stands for a missing or
\* empty Error
Errors == { "", "TooManyRequests", "Unknown" }

IndexerLists == UNION { [1..n -> Errors] : n \in 0..MaxIndexers }

\* the Results of a response: r results, each with its own Link
ResultList(r) == [k \in 1..r |-> [Title |-> k, Link |-> k]]

\* what one GET of the results endpoint can produce
SearchResponses ==
  { [kind |-> "timeout", Indexers |-> <<>>, Results |-> <<>>],
    [kind |-> "http_error", Indexers |-> <<>>, Results |-> <<>>] }
  \cup
  { [kind |-> "body", Indexers |-> ix, Results |-> ResultList(r)] :
      ix \in IndexerLists, r \in 0..MaxResults }

\* what one GET of a result's Link can produce: no response at all, a
\* non-2xx status (whatever the body declares), a body that does not decode,
\* a descriptor without info.name, a descriptor that declares a name
Descriptors ==
  { [kind |-> k, name |-> <<>>] :
      k \in { "request_failed", "undecodable", "no_name" } }
  \cup
  { [kind |-> k, name |-> n] : k \in { "http_error", "named" }, n \in Names }

\* the first non-empty Error of a list of indexers, "" when there is none
RECURSIVE FirstError(_)
FirstError(ix) ==
  IF ix = <<>> THEN ""
  ELSE IF Head(ix) # "" THEN Head(ix) ELSE FirstError(Tail(ix))

\* what the history keeps of a search response
Summary(resp) ==
  [kind |-> resp.kind, error |-> FirstError(resp.Indexers),
   results |-> Len(resp.Results)]

\* ------------------------------------------------------- TrackerSearcher
\* another default of max_retries
max_retries_other == 10 + 1

\* the default of max_retries (line 24); main() never passes another value
max_retries == 10

None == [tag |-> "None", val |-> <<>>]
Raised == [tag |-> "raise", val |-> <<>>]
List(l) == [tag |-> "list", val |-> l]

\* search_tracker that fails only on the rate-limit error of line 70
search_tracker_rate_limit_only(resp) ==
  IF resp.kind \in { "timeout", "http_error" }
    THEN Raised
    ELSE IF \E k \in 1..Len(resp.Indexers) :
                resp.Indexers[k] = "TooManyRequests"
           THEN None
           ELSE List(resp.Results)

\* search_tracker: session.get and raise_for_status raise on a timeout and
\* on a non-2xx status; the first indexer with a non-empty Error makes the
\* call return None; otherwise the Results are returned
search_tracker(resp) ==
  IF resp.kind \in { "timeout", "http_error" }
    THEN Raised
    ELSE IF \E k \in 1..Len(resp.Indexers) : resp.Indexers[k] # ""
           THEN None
           ELSE List(resp.Results)

\* get_torrent_name without the raise_for_status of line 94
get_torrent_name_any_status(d) ==
  IF d.kind \in { "named", "http_error" } THEN d.name ELSE <<>>

\* get_torrent_name: every exception is caught and yields ""
get_torrent_name(d) ==
  IF d.kind = "named" THEN d.name ELSE <<>>

\* matches_query without the two lower()
matches_query_cased(torrent_name, query) ==
  IsIn(query, torrent_name)

\* matches_query
matches_query(torrent_name, query) ==
  IsIn(LowerStr(query), LowerStr(torrent_name))

\* the condition of line 199
IsMatch(torrent_name, query) ==
  torrent_name # <<>> /\ matches_query(torrent_name, query)

Max(a, b) == IF a > b THEN a ELSE b

\* retry_delay without the floor of 4 seconds
RetryDelayNoFloor(d, attempt) == d * (attempt + 1)

\* retry_delay of line 172, attempt counted from 0
RetryDelay(d, attempt) == Max(d, 4) * (attempt + 1)

\* a loop that runs once more than range(self.max_retries)
HasNextAttemptOneMore(attempt) == attempt + 1 <= max_retries

\* for attempt in range(self.max_retries): is there an iteration after
\* the one numbered attempt
HasNextAttempt(attempt) == attempt + 1 < max_retries

\* len(raw_results) >= 5
TooManyResultsFrom5(raw) == Len(raw) >= 5

\* len(raw_results) > 5
TooManyResults(raw) == Len(raw) > 5

\* line 186 without the condition of line 185
DelayAlwaysRaised(d, errors) == d + 1

\* lines 185-186
DelayAfterSearch(d, errors) == IF errors THEN d + 1 ELSE d

\* found_match = True
InitialFoundMatchSet == TRUE

\* found_match of line 190
InitialFoundMatch == FALSE

\* ------------------------------------------------------------------ state
VARIABLES
  dir,          \* main: what args.input_dir is on the filesystem
  items,        \* main: items, the list handed to search_and_verify_all
  delay,        \* self.delay
  pc,           \* where the program is
  exitCode,     \* the exit status of the process, -1 while it runs
  ci,           \* main: index of the item of the comprehension of line 504
  not_found,    \* main: not_found
  i,            \* search_and_verify_all: i
  found,        \* search_and_verify_all: found
  h_results,    \* what search_and_verify returned, per query of the pass
  query,        \* search_and_verify: query
  attempt,      \* search_and_verify: attempt
  had_errors,   \* search_and_verify: had_errors
  raw_results,  \* search_and_verify: raw_results
  retry_delay,  \* search_and_verify: retry_delay
  found_match,  \* search_and_verify: found_match
  idx,          \* search_and_verify: position of the loop over raw_results
  h_abort,      \* why the process ended
  h_verified,   \* the queries search_and_verify was called with, in order
  h_delay0,     \* self.delay when the current verify call began
  h_sleep,      \* the seconds search_and_verify_all slept before the current
                \* query, 0 when it did not sleep
  h_searches,   \* the number of search calls of the current verify call,
                \* kept until its first descriptor fetch or its return
  h_waits,      \* the backoff waits of the current verify call, kept as long
                \* as h_searches
  h_links,      \* the Links fetched by the current verify call, in order
  h_names,      \* what get_torrent_name returned, per fetched result
  h_resp,       \* the response, when the last network call was a search
  h_desc,       \* the response, when the last network call was a fetch
  url_pc,       \* search_tracker, lines 51-61: where the call is
  url_query,    \* search_tracker, lines 51-61: query
  encoded_query,\* search_tracker: encoded_query
  sent_query,   \* the Query parameter of the URL the session sent
  va,           \* one call of search_and_verify: its locals and self.delay
  vb,           \* another call of it, given the same responses as va
  flt_pc,       \* filter_items_by_group: where the call is
  flt_items,    \* filter_items_by_group: items
  excluded_groups, \* filter_items_by_group: excluded_groups
  flt_k,        \* filter_items_by_group: position of the loop over items
  filtered_items,  \* filter_items_by_group: filtered_items
  skipped_count \* filter_items_by_group: skipped_count

vars == << dir, items, delay, pc, exitCode, ci, not_found, i, found, h_results, query,
           attempt, had_errors, raw_results, retry_delay, found_match, idx,
           h_abort, h_verified, h_delay0, h_sleep, h_searches, h_waits,
           h_links, h_names, h_resp, h_desc, url_pc, url_query,
           encoded_query, sent_query, va, vb, flt_pc, flt_items,
           excluded_groups, flt_k, filtered_items, skipped_count >>

urlVars == << url_pc, url_query, encoded_query, sent_query >>
pairVars == << va, vb >>
filterVars == << flt_pc, flt_items, excluded_groups, flt_k, filtered_items,
                skipped_count >>
sideVars == << urlVars, pairVars, filterVars >>
mainVars == << dir, items, ci, not_found >>
batchVars == << i, found, h_results >>
verifyVars == << query, attempt, had_errors, raw_results, retry_delay,
                 found_match, idx >>
histVars == << h_verified, h_delay0, h_sleep, h_searches, h_waits, h_links,
              h_names, h_resp, h_desc >>

NoResp == [kind |-> "none", error |-> "", results |-> 0]
NoDesc == [kind |-> "none", name |-> <<>>]

DelayArgs == { 0, MaxDelayArg }

\* args.input_dir: not a directory, a directory os.listdir cannot read, a
\* directory that is listed
DirKinds == { "not_a_dir", "unreadable", "listed" }

\* the locals and the self.delay of a call of search_and_verify that was
\* not made
IdleCall ==
  [pc |-> "idle", query |-> <<>>, delay |-> 0, attempt |-> 0,
   had_errors |-> FALSE, raw_results |-> None, retry_delay |-> 0,
   idx |-> 1, found_match |-> FALSE, calls |-> <<>>]

\* no call of filter_items_by_group is followed
FilterIdle ==
  /\ flt_pc = "off"
  /\ flt_items = <<>>
  /\ excluded_groups = <<>>
  /\ flt_k = 1
  /\ filtered_items = <<>>
  /\ skipped_count = 0

\* the run of main() follows no single call apart from the run
SideIdle ==
  /\ url_pc = "off"
  /\ url_query = <<>>
  /\ encoded_query = <<>>
  /\ sent_query = <<>>
  /\ va = IdleCall
  /\ vb = IdleCall
  /\ FilterIdle

\* the process starts: the command line gives the directory and --delay;
\* items is what the listing and the group filter will give
InitRun ==
  /\ dir \in DirKinds
  /\ items \in (IF dir = "listed" THEN ItemLists ELSE { <<>> })
  /\ delay \in DelayArgs
  /\ pc = "main"
  /\ exitCode = -1
  /\ ci = 1
  /\ not_found = <<>>
  /\ i = 1
  /\ found = <<>>
  /\ h_results = <<>>
  /\ query = <<>>
  /\ attempt = 0
  /\ had_errors = FALSE
  /\ raw_results = None
  /\ retry_delay = 0
  /\ found_match = FALSE
  /\ idx = 1
  /\ h_abort = "none"
  /\ h_verified = <<>>
  /\ h_delay0 = delay
  /\ h_sleep = 0
  /\ h_searches = 0
  /\ h_waits = <<>>
  /\ h_links = <<>>
  /\ h_names = <<>>
  /\ h_resp = NoResp
  /\ h_desc = NoDesc

Init == InitRun /\ SideIdle

\* sys.exit(code), or an exception nobody catches (status 1)
Exit(code, why) ==
  /\ pc' = "exited"
  /\ exitCode' = code
  /\ h_abort' = why

Running(next) ==
  /\ pc' = next
  /\ UNCHANGED << exitCode, h_abort >>

\* return False where lines 179 and 183 call sys.exit(1)
FatalSkipsItem(why) ==
  /\ pc' = "returned"
  /\ exitCode' = exitCode
  /\ h_abort' = why

\* sys.exit(1) of lines 179 and 183
Fatal(why) == Exit(1, why)

\* lines 477-502 of main(): the directory is checked, the searcher is built
\* with the default max_retries, the items are listed (get_files_and_folders
\* exits with status 1 on OSError) and filtered
MainStart ==
  /\ pc = "main"
  /\ IF dir = "listed" THEN Running("comp") ELSE Exit(1, dir)
  /\ UNCHANGED << sideVars, mainVars, delay, batchVars, verifyVars, histVars >>

\* line 504: the condition of the comprehension is evaluated for the item
\* numbered ci, which calls search_and_verify_all(items)
StartPass ==
  /\ pc = "comp"
  /\ ci <= Len(items)
  /\ i' = 1
  /\ found' = <<>>
  /\ h_results' = <<>>
  /\ Running("item")
  /\ UNCHANGED << sideVars, mainVars, delay, verifyVars, histVars >>

\* lines 506-565: the report; the process ends with status 0
Report ==
  /\ pc = "comp"
  /\ ci > Len(items)
  /\ Exit(0, "none")
  /\ UNCHANGED << sideVars, mainVars, delay, batchVars, verifyVars, histVars >>

\* line 136 without i > 1
NeedsSleepAlways == delay > 0

\* line 136
NeedsSleep == i > 1 /\ delay > 0

\* lines 136-137
InterItemSleep ==
  /\ pc = "item"
  /\ i <= Len(items)
  /\ NeedsSleep
  /\ h_sleep' = delay
  /\ Running("call")
  /\ UNCHANGED << sideVars, mainVars, delay, batchVars, verifyVars, h_verified,
                  h_delay0, h_searches, h_waits, h_links, h_names, h_resp,
                  h_desc >>

\* the locals of search_and_verify and the history of one call of it,
\* before the call and after it
NoCall ==
  /\ query' = <<>>
  /\ raw_results' = None
  /\ had_errors' = FALSE
  /\ attempt' = 0
  /\ retry_delay' = 0
  /\ found_match' = FALSE
  /\ idx' = 1
  /\ h_delay0' = delay
  /\ h_sleep' = 0
  /\ h_searches' = 0
  /\ h_waits' = <<>>
  /\ h_links' = <<>>
  /\ h_names' = <<>>
  /\ h_resp' = NoResp
  /\ h_desc' = NoDesc

\* line 143 and lines 163-164: search_and_verify(item) is entered
BeginVerify ==
  /\ \/ pc = "call"
     \/ pc = "item" /\ i <= Len(items) /\ ~NeedsSleep
  /\ query' = items[i]
  /\ h_verified' = Append(h_verified, items[i])
  /\ Running("search")
  /\ UNCHANGED << sideVars, mainVars, delay, batchVars, attempt, had_errors,
                  raw_results, retry_delay, found_match, idx, h_delay0,
                  h_sleep, h_searches, h_waits, h_links, h_names, h_resp,
                  h_desc >>

\* lines 167-172 and 176-190: one call of search_tracker and what follows
\* it up to the next network call, wait or exit.  attempt and retry_delay
\* are not read after the loop: they are set back when the loop is left by
\* break.
Search ==
  /\ pc = "search"
  /\ \E resp \in SearchResponses :
       LET out == search_tracker(resp) IN
       /\ h_resp' = Summary(resp)
       /\ CASE out.tag = "raise" ->
                 /\ Exit(1, "exception")
                 /\ h_searches' = h_searches + 1
                 /\ UNCHANGED << delay, had_errors, raw_results, retry_delay,
                                 found_match, idx, attempt, h_waits >>
            [] out.tag = "None" ->
                 /\ had_errors' = TRUE
                 /\ retry_delay' = RetryDelay(delay, attempt)
                 /\ raw_results' = None
                 /\ h_searches' = h_searches + 1
                 /\ Running("backoff")
                 /\ UNCHANGED << delay, found_match, idx, attempt, h_waits >>
            [] out.tag = "list" ->
                 /\ raw_results' = out
                 /\ attempt' = 0
                 /\ retry_delay' = 0
                 /\ h_searches' = h_searches + 1
                 /\ UNCHANGED << had_errors, h_waits >>
                 /\ IF TooManyResults(out.val)
                      THEN /\ Fatal("too_many")
                           /\ UNCHANGED << delay, found_match, idx >>
                      ELSE /\ delay' = DelayAfterSearch(delay, had_errors)
                           /\ found_match' = InitialFoundMatch
                           /\ idx' = 1
                           /\ Running(IF Len(out.val) = 0
                                        THEN "returned" ELSE "fetch")
  /\ h_desc' = NoDesc
  /\ UNCHANGED << sideVars, mainVars, batchVars, query, h_verified, h_delay0, h_sleep,
                  h_links, h_names >>

\* line 174, then the loop head of line 166 and, when the loop is over,
\* lines 176-179
Backoff ==
  /\ pc = "backoff"
  /\ h_waits' = Append(h_waits, retry_delay)
  /\ IF HasNextAttempt(attempt)
       THEN /\ attempt' = attempt + 1
            /\ Running("search")
       ELSE /\ attempt' = attempt
            /\ Fatal("retries")
  /\ UNCHANGED << sideVars, mainVars, delay, batchVars, query, had_errors, raw_results,
                  retry_delay, found_match, idx, h_verified, h_delay0,
                  h_sleep, h_searches, h_links, h_names, h_resp, h_desc >>

\* a loop over raw_results that stops at the first match
LoopEndsOnMatch(k, n, matched) == k = n \/ matched

\* line 192: the loop ends after the last of the n results, matched or not
LoopEnds(k, n, matched) == k = n

\* lines 192-200: one iteration of the loop over raw_results
Fetch ==
  /\ pc = "fetch"
  /\ idx <= Len(raw_results.val)
  /\ \E d \in Descriptors :
       LET torrent_name == get_torrent_name(d) IN
       /\ found_match' = (IF IsMatch(torrent_name, query)
                            THEN TRUE ELSE found_match)
       /\ h_names' = Append(h_names, torrent_name)
       /\ h_desc' = d
  /\ h_links' = Append(h_links, raw_results.val[idx].Link)
  /\ h_resp' = NoResp
  /\ h_searches' = 0
  /\ h_waits' = <<>>
  /\ idx' = idx + 1
  /\ Running(IF LoopEnds(idx, Len(raw_results.val), found_match')
               THEN "returned" ELSE "fetch")
  /\ UNCHANGED << sideVars, mainVars, delay, batchVars, query, attempt, had_errors,
                  raw_results, retry_delay, h_verified, h_delay0, h_sleep >>

\* lines 143-144 with the condition negated
CollectedUnless(fnd, item, matched) ==
  IF matched THEN fnd ELSE Append(fnd, item)

\* lines 143-144
Collected(fnd, item, matched) ==
  IF matched THEN Append(fnd, item) ELSE fnd

\* line 221 and lines 143-147: search_and_verify returns found_match
Collect ==
  /\ pc = "returned"
  /\ found' = Collected(found, items[i], found_match)
  /\ h_results' = Append(h_results, found_match)
  /\ i' = i + 1
  /\ NoCall
  /\ Running("item")
  /\ UNCHANGED << sideVars, mainVars, delay, h_verified >>

InSeq(x, s) == \E k \in 1..Len(s) : s[k] = x

\* line 149 and the comprehension of line 504: search_and_verify_all
\* returns found, and the item numbered ci is kept when it is not in it
EndPass ==
  /\ pc = "item"
  /\ i > Len(items)
  /\ not_found' = IF InSeq(items[ci], found)
                    THEN not_found ELSE Append(not_found, items[ci])
  /\ ci' = ci + 1
  /\ Running("comp")
  /\ UNCHANGED << sideVars, dir, items, delay, i, found, h_results,
                  verifyVars, histVars >>

Next ==
  \/ MainStart
  \/ StartPass
  \/ Report
  \/ InterItemSleep
  \/ BeginVerify
  \/ Search
  \/ Backoff
  \/ Fetch
  \/ Collect
  \/ EndPass

Spec == Init /\ [][Next]_vars

TypeOK ==
  /\ items \in ItemLists
  /\ delay \in Nat
  /\ pc \in { "main", "comp", "item", "call", "search", "backoff", "fetch",
              "returned", "exited" }
  /\ exitCode \in { -1, 0, 1 }
  /\ attempt \in 0..max_retries
  /\ had_errors \in BOOLEAN
  /\ found_match \in BOOLEAN

\* the variables of the run of main(), which the specifications of a single
\* call leave as a run that was given no directory
runVars == << mainVars, delay, pc, exitCode, h_abort, batchVars, verifyVars,
             histVars >>

NoRun == InitRun /\ dir = "not_a_dir" /\ delay = 0

\* ------------------------------------------- the URL of one search request
\* the characters of the queries whose encoding is followed: a letter, the
\* space and two reserved characters
QueryChars == { "a", " ", "+", "%" }

Queries == UNION { [1..n -> QueryChars] : n \in 0..MaxQueryLen }

\* urllib.parse.quote_plus on one character: the space becomes "+", letters
\* and digits stay, any other character becomes "%" and its two hex digits
quote_char(c) ==
  CASE c = " " -> << "+" >>
    [] c = "+" -> << "%", "2", "B" >>
    [] c = "%" -> << "%", "2", "5" >>
    [] OTHER -> << c >>

\* urllib.parse.quote_plus, called at line 51
RECURSIVE quote_plus(_)
quote_plus(s) ==
  IF s = <<>> THEN <<>> ELSE quote_char(Head(s)) \o quote_plus(Tail(s))

\* session.get(url, params=params) of line 61: the session builds the query
\* string of the URL with urlencode, which applies quote_plus to each value
urlencode(value) == quote_plus(value)

\* line 51
EncodeQuery ==
  /\ url_pc = "encode"
  /\ encoded_query' = quote_plus(url_query)
  /\ url_pc' = "send"
  /\ UNCHANGED << url_query, sent_query, pairVars, filterVars, runVars >>

\* lines 55-61: params carries encoded_query and the session sends the URL
SendRequest ==
  /\ url_pc = "send"
  /\ sent_query' = urlencode(encoded_query)
  /\ url_pc' = "sent"
  /\ UNCHANGED << url_query, encoded_query, pairVars, filterVars,
                  runVars >>

InitUrl ==
  /\ NoRun
  /\ url_pc = "encode"
  /\ url_query \in Queries
  /\ encoded_query = <<>>
  /\ sent_query = <<>>
  /\ va = IdleCall
  /\ vb = IdleCall
  /\ FilterIdle

NextUrl ==
  \/ EncodeQuery
  \/ SendRequest

\* search_tracker from its entry to the request, for any query
SpecUrl == InitUrl /\ [][NextUrl]_vars

\* --------------------------- two calls of search_and_verify, side by side
\* search_and_verify(query) is entered with self.delay = d
StartCall(q, d) ==
  [pc |-> "search", query |-> q, delay |-> d, attempt |-> 0,
   had_errors |-> FALSE, raw_results |-> None, retry_delay |-> 0,
   idx |-> 1, found_match |-> FALSE, calls |-> <<>>]

SearchCall(q) == [call |-> "search", query |-> q, link |-> 0]
FetchCall(l) == [call |-> "fetch", query |-> <<>>, link |-> l]

\* lines 167-172 and 176-190 on the locals s of one call: the step Search
SearchStep(s, resp) ==
  LET out == search_tracker(resp)
      c == Append(s.calls, SearchCall(s.query))
  IN CASE out.tag = "raise" -> [s EXCEPT !.pc = "raised", !.calls = c]
       [] out.tag = "None" ->
            [s EXCEPT !.pc = "backoff", !.had_errors = TRUE,
                      !.retry_delay = RetryDelay(s.delay, s.attempt),
                      !.raw_results = None, !.calls = c]
       [] out.tag = "list" ->
            IF TooManyResults(out.val)
              THEN [s EXCEPT !.pc = "fatal", !.raw_results = out, !.calls = c]
              ELSE [s EXCEPT !.pc = IF Len(out.val) = 0
                                      THEN "returned" ELSE "fetch",
                             !.raw_results = out,
                             !.delay = DelayAfterSearch(s.delay, s.had_errors),
                             !.found_match = InitialFoundMatch,
                             !.idx = 1,
                             !.calls = c]

\* a backoff that gives up once the wait has passed 4 * max_retries seconds
BackoffStepCapped(s) ==
  IF HasNextAttempt(s.attempt) /\ s.retry_delay <= 4 * max_retries
    THEN [s EXCEPT !.pc = "search", !.attempt = @ + 1]
    ELSE [s EXCEPT !.pc = "fatal"]

\* line 174, the loop head of line 166 and lines 176-179 on the locals s of
\* one call: the step Backoff
BackoffStep(s) ==
  IF HasNextAttempt(s.attempt)
    THEN [s EXCEPT !.pc = "search", !.attempt = @ + 1]
    ELSE [s EXCEPT !.pc = "fatal"]

\* lines 192-200 on the locals s of one call: the step Fetch
FetchStep(s, d) ==
  LET torrent_name == get_torrent_name(d)
      fm == IF IsMatch(torrent_name, s.query) THEN TRUE ELSE s.found_match
  IN [s EXCEPT !.found_match = fm,
               !.idx = @ + 1,
               !.calls = Append(@, FetchCall(s.raw_results.val[s.idx].Link)),
               !.pc = IF LoopEnds(s.idx, Len(s.raw_results.val), fm)
                        THEN "returned" ELSE "fetch"]

\* the two calls search and the backend answers both with resp
PairSearch ==
  /\ va.pc = "search" /\ vb.pc = "search"
  /\ \E resp \in SearchResponses :
       /\ va' = SearchStep(va, resp)
       /\ vb' = SearchStep(vb, resp)
  /\ UNCHANGED << urlVars, filterVars, runVars >>

PairBackoff ==
  /\ va.pc = "backoff" /\ vb.pc = "backoff"
  /\ va' = BackoffStep(va)
  /\ vb' = BackoffStep(vb)
  /\ UNCHANGED << urlVars, filterVars, runVars >>

\* the two calls fetch and the backend answers both with d
PairFetch ==
  /\ va.pc = "fetch" /\ vb.pc = "fetch"
  /\ \E d \in Descriptors :
       /\ va' = FetchStep(va, d)
       /\ vb' = FetchStep(vb, d)
  /\ UNCHANGED << urlVars, filterVars, runVars >>

\* the same query, any two values of self.delay
InitPair ==
  /\ NoRun
  /\ url_pc = "off"
  /\ url_query = <<>>
  /\ encoded_query = <<>>
  /\ sent_query = <<>>
  /\ FilterIdle
  /\ \E k \in 1..Len(Pool) :
       /\ va \in { StartCall(Pool[k], d) : d \in 0..MaxDelayArg }
       /\ vb \in { StartCall(Pool[k], d) : d \in 0..MaxDelayArg }

NextPair ==
  \/ PairSearch
  \/ PairBackoff
  \/ PairFetch

\* two calls of search_and_verify that receive the same responses
SpecPair == InitPair /\ [][NextPair]_vars

\* ------------------------------------------- filter_items_by_group alone
\* the names a listing can hold: without a dash, with one, ending in one,
\* with two
FilterNames ==
  { << "a" >>, << "a", "-", "A" >>, << "a", "-" >>, << "a", "-", "a" >>,
    << "A", "-", "a", "-", "A" >> }

\* the groups --exclude-groups can name
GroupNames == { <<>>, << "A" >>, << "a", "-", "A" >> }

FilterInputs == UNION { [1..n -> FilterNames] : n \in 0..MaxFilterItems }

GroupLists == UNION { [1..n -> GroupNames] : n \in 0..MaxGroups }

\* the group name is what follows the first dash
extract_group_name_first(filename) ==
  IF \E k \in 1..Len(filename) : filename[k] = "-"
    THEN LET first == CHOOSE k \in 1..Len(filename) :
                        /\ filename[k] = "-"
                        /\ \A j \in 1..(k - 1) : filename[j] # "-"
         IN SubSeq(filename, first + 1, Len(filename))
    ELSE <<>>

\* extract_group_name: filename.split('-')[-1] when there is a dash, ""
\* otherwise
extract_group_name(filename) ==
  IF \E k \in 1..Len(filename) : filename[k] = "-"
    THEN LET last == CHOOSE k \in 1..Len(filename) :
                       /\ filename[k] = "-"
                       /\ \A j \in (k + 1)..Len(filename) : filename[j] # "-"
         IN SubSeq(filename, last + 1, Len(filename))
    ELSE <<>>

\* lines 272-276: no excluded groups, items is returned as it is; otherwise
\* the two accumulators are set up
FilterBegin ==
  /\ flt_pc = "entry"
  /\ IF excluded_groups = <<>>
       THEN /\ filtered_items' = flt_items
            /\ skipped_count' = 0
            /\ flt_pc' = "returned"
       ELSE /\ filtered_items' = <<>>
            /\ skipped_count' = 0
            /\ flt_pc' = "loop"
  /\ flt_k' = 1
  /\ UNCHANGED << flt_items, excluded_groups, urlVars, pairVars, runVars >>

\* lines 278-283: one iteration of the loop over items
FilterItem ==
  /\ flt_pc = "loop"
  /\ flt_k <= Len(flt_items)
  /\ LET item == flt_items[flt_k]
         group_name == extract_group_name(item)
     IN IF InSeq(group_name, excluded_groups)
          THEN /\ skipped_count' = skipped_count + 1
               /\ filtered_items' = filtered_items
          ELSE /\ filtered_items' = Append(filtered_items, item)
               /\ skipped_count' = skipped_count
  /\ flt_k' = flt_k + 1
  /\ UNCHANGED << flt_pc, flt_items, excluded_groups, urlVars, pairVars,
                  runVars >>

\* line 284
FilterReturn ==
  /\ flt_pc = "loop"
  /\ flt_k > Len(flt_items)
  /\ flt_pc' = "returned"
  /\ UNCHANGED << flt_items, excluded_groups, flt_k, filtered_items,
                  skipped_count, urlVars, pairVars, runVars >>

InitFilter ==
  /\ NoRun
  /\ url_pc = "off"
  /\ url_query = <<>>
  /\ encoded_query = <<>>
  /\ sent_query = <<>>
  /\ va = IdleCall
  /\ vb = IdleCall
  /\ flt_pc = "entry"
  /\ flt_items \in FilterInputs
  /\ excluded_groups \in GroupLists
  /\ flt_k = 1
  /\ filtered_items = <<>>
  /\ skipped_count = 0

NextFilter ==
  \/ FilterBegin
  \/ FilterItem
  \/ FilterReturn

\* one call of filter_items_by_group, for any items and excluded groups
SpecFilter == InitFilter /\ [][NextFilter]_vars

\* ----------------------------------------------------------------- claims
\* name contains q as a substring, letter case ignored
ContainsCI(name, q) ==
  \E k \in 1..(Len(name) - Len(q) + 1) :
    \A j \in 1..Len(q) : Lower(name[k + j - 1]) = Lower(q[j])

\* some result fetched so far declared a name that contains the query
SomeNameContains(n) ==
  \E k \in 1..n : ContainsCI(h_names[k], query)

\* the last network call was a search and it ...
SearchOk == h_resp.kind = "body" /\ h_resp.error = ""
SearchIndexerError == h_resp.kind = "body" /\ h_resp.error # ""
SearchTransport == h_resp.kind \in { "timeout", "http_error" }
SearchFault == SearchIndexerError \/ SearchTransport

\* the last network call was a descriptor fetch and it gave no readable
\* info.name
FetchFault ==
  h_desc.kind \in { "request_failed", "http_error", "undecodable", "no_name" }

\* C1: when search_and_verify returns (its search gave at most 5 results and
\* every one of them was fetched), it returns true exactly when the declared
\* name of at least one result contains the query, letter case ignored.
C1_Thm ==
  pc = "returned" =>
    /\ Len(raw_results.val) <= 5
    /\ Len(h_names) = Len(raw_results.val)
    /\ found_match <=> SomeNameContains(Len(h_names))

\* C1 witness: a call returns true after one result with a matching name
\* and one with no readable name.
C1_Wit ==
  /\ pc = "returned"
  /\ found_match
  /\ Len(h_names) >= 2
  /\ \E k \in 1..Len(h_names) : h_names[k] = <<>>
  /\ \E k \in 1..Len(h_names) : h_names[k] # <<>>

\* C2: every faulty search response (timeout, non-2xx status, indexer Error)
\* is followed by a backoff wait and another search while attempts remain;
\* the run ends on a fault only when max_retries attempts have been made.
C2_Claim ==
  SearchFault =>
    IF h_searches < max_retries
      THEN pc \in { "backoff", "search" }
      ELSE pc \in { "backoff", "exited" } /\ (pc = "exited" => exitCode = 1)

\* C3: search_and_verify is called once per item, in input order: the calls
\* made so far are a prefix of the items, and a run that ends with the
\* report has made exactly the calls of the item list.
C3_Claim ==
  /\ Len(h_verified) <= Len(items)
  /\ h_verified = SubSeq(items, 1, Len(h_verified))
  /\ (pc = "exited" /\ exitCode = 0) => h_verified = items

\* C4 as claimed: the delay never drops below its value at the start of
\* the call, and once a search succeeds after at least one failed attempt
\* of the same call the delay is exactly 1 above that value.
C4_Claim ==
  /\ delay >= h_delay0
  /\ (raw_results.tag = "list" /\ had_errors) => delay = h_delay0 + 1

\* a verify call is past its successful search and has not been aborted
PastSearch == pc \in { "fetch", "returned" }

\* C4 as amended: the delay never decreases in a run; a verify call leaves
\* it alone while it retries and when it is aborted, and raises it by
\* exactly 1, once, when its search succeeds with at most 5 results after
\* at least one failed attempt (after two failed attempts as after one);
\* a call whose first search succeeds leaves it unchanged.
C4_Thm ==
  /\ [](/\ PastSearch =>
             delay = h_delay0 + (IF had_errors THEN 1 ELSE 0)
        /\ (PastSearch /\ h_searches >= 2) => delay = h_delay0 + 1
        /\ (PastSearch /\ h_searches = 1) => delay = h_delay0
        /\ ~PastSearch => delay = h_delay0)
  /\ [][delay' >= delay]_vars

\* C4 witness: two failed searches, then a search with results: the delay
\* is 1 above its value at the start of the call.
C4_Wit ==
  /\ pc = "fetch"
  /\ h_searches = 3
  /\ Len(h_waits) = 2
  /\ delay = h_delay0 + 1

\* C5: when max_retries search attempts of one call have all failed and the
\* last wait is over, the process has exited with status 1, and no
\* descriptor was fetched during the call; the exit for exhausted retries
\* happens in no other case.
C5_Thm ==
  /\ (h_searches = max_retries /\ SearchFault /\ pc # "backoff") =>
       (pc = "exited" /\ exitCode = 1 /\ h_names = <<>>)
  /\ h_abort = "retries" =>
       (h_searches = max_retries /\ SearchIndexerError /\ exitCode = 1
        /\ h_names = <<>>)

\* C5 witness: the exit after max_retries failed searches.
C5_Wit ==
  /\ pc = "exited"
  /\ h_abort = "retries"
  /\ h_searches = max_retries

\* C6: a successful search with more than 5 results ends the process with
\* status 1 at once, with no descriptor fetched and no further search; a
\* successful search with at most 5 results does not end the process, and
\* the abort for too many results happens in no other case.
C6_Thm ==
  /\ (SearchOk /\ h_resp.results > 5) =>
       (pc = "exited" /\ exitCode = 1 /\ h_abort = "too_many"
        /\ h_names = <<>>)
  /\ (SearchOk /\ h_resp.results <= 5) =>
       (pc \in { "fetch", "returned" } /\ exitCode = -1)
  /\ h_abort = "too_many" => (SearchOk /\ h_resp.results > 5)

\* C6 witness: the abort on a response with 6 results.
C6_Wit ==
  /\ h_abort = "too_many"
  /\ h_resp.results = 6
  /\ exitCode = 1

\* C7: after a successful search with zero results the call returns false
\* and has fetched no descriptor.
C7_Thm ==
  (SearchOk /\ h_resp.results = 0) =>
    (pc = "returned" /\ ~found_match /\ h_names = <<>>)

\* C7 witness: a search that succeeds with zero results after a failed one.
C7_Wit ==
  /\ SearchOk
  /\ h_resp.results = 0
  /\ pc = "returned"
  /\ h_searches = 2

\* C8: after a descriptor fetch that failed or gave no info.name the process
\* still runs, the candidate counted as no match (found_match is what the
\* other candidates made it), and the loop goes on to the next candidate
\* or, after the last one, returns.
C8_Thm ==
  FetchFault =>
    /\ exitCode = -1
    /\ h_names # <<>>
    /\ h_names[Len(h_names)] = <<>>
    /\ idx = Len(h_names) + 1
    /\ found_match <=> SomeNameContains(Len(h_names) - 1)
    /\ pc = (IF Len(h_names) < Len(raw_results.val)
               THEN "fetch" ELSE "returned")

\* C8 witness: the call returns true although the fetch of its last
\* candidate ended with a non-2xx status.
C8_Wit ==
  /\ h_desc.kind = "http_error"
  /\ h_desc.name # <<>>
  /\ pc = "returned"
  /\ found_match
  /\ Len(h_names) >= 2

\* C9: while a call retries, its k-th wait was max(delay, 4) * k seconds,
\* every wait is at least 4 seconds and longer than the one before, and
\* each failed search is followed by exactly one wait.
C9_Thm ==
  pc \in { "search", "backoff" } =>
    /\ \A k \in 1..Len(h_waits) :
         /\ h_waits[k] = Max(delay, 4) * k
         /\ h_waits[k] >= 4
         /\ k > 1 => h_waits[k] > h_waits[k - 1]
    /\ pc = "search" => Len(h_waits) = h_searches
    /\ pc = "backoff" =>
         (Len(h_waits) = h_searches - 1
          /\ retry_delay = Max(delay, 4) * h_searches)

\* C9 witness: three waits of 4, 8 and 12 seconds with the delay at 0.
C9_Wit ==
  /\ pc = "search"
  /\ delay = 0
  /\ h_waits = << 4, 8, 12 >>

\* C10: a call makes at most 10 search calls, searches again only when the
\* search before failed and fewer than 10 were made, and makes no search
\* after a successful one.
C10_Thm ==
  /\ h_searches <= 10
  /\ pc = "search" =>
       (h_searches < 10 /\ raw_results.tag = "None"
        /\ (h_searches > 0 => SearchIndexerError))
  /\ raw_results.tag = "list" => pc \notin { "search", "backoff" }

\* C10 witness: the tenth search of a call succeeds with zero results.
C10_Wit ==
  /\ h_searches = 10
  /\ SearchOk
  /\ pc = "returned"

\* a verify call is in progress
InVerify == pc \in { "search", "backoff", "fetch", "returned" }

\* C11: in a batch pass nothing is slept before the first query; before
\* every later query the pass sleeps once, for the value the delay has at
\* that moment, when that value is above zero, and not at all when it is
\* zero.  (h_delay0 is the delay the verify call of the query began with: it
\* includes the increase made by the call before and none made later.)
C11_Thm ==
  /\ pc = "call" => (i > 1 /\ delay > 0 /\ h_sleep = delay)
  /\ InVerify =>
       h_sleep = (IF i > 1 /\ h_delay0 > 0 THEN h_delay0 ELSE 0)
  /\ pc \in { "main", "comp", "item" } => h_sleep = 0

\* C11 witness: the run began with delay 0, the first query's verify raised
\* it, and the pass slept 1 second before the second query.
C11_Wit ==
  /\ pc = "search"
  /\ i = 2
  /\ h_sleep = 1

\* the first n items for which search_and_verify returned true, in order
RECURSIVE KeptUpTo(_)
KeptUpTo(n) ==
  IF n = 0 THEN <<>>
  ELSE IF h_results[n]
         THEN Append(KeptUpTo(n - 1), items[n])
         ELSE KeptUpTo(n - 1)

\* search_and_verify_all is about to return found
PassReturns == pc = "item" /\ i > Len(items)

C13_Claim ==
  pc = "exited" =>
    /\ exitCode \in { 0, 1 }
    /\ exitCode = 1 <=>
         \/ dir # "listed"
         \/ h_searches = max_retries /\ SearchFault
         \/ SearchOk /\ h_resp.results > 5

\* a verify call has hit a fatal fault: max_retries failed searches and the
\* last wait over, or a search with more than 5 results
FatalFault ==
  \/ /\ h_searches = max_retries
     /\ SearchIndexerError
     /\ Len(h_waits) = max_retries
  \/ SearchOk /\ h_resp.results > 5

\* C14: as soon as a verify call hits a fatal fault the process has exited
\* with status 1, and an exited process takes no further step: no other
\* query is verified, no request is made and no report is produced.
C14_Thm ==
  /\ [](FatalFault => (pc = "exited" /\ exitCode = 1))
  /\ [][pc # "exited"]_vars

\* C14 witness: the first of two queries gets 6 results in the first pass;
\* the process has exited and the second query was never verified.
C14_Wit ==
  /\ FatalFault
  /\ h_resp.results = 6
  /\ pc = "exited"
  /\ Len(items) = 2
  /\ h_verified = << items[1] >>

C17_Thm ==
  [][ /\ delay' # delay =>
           /\ pc = "search"
           /\ had_errors
           /\ h_searches >= 1
           /\ pc' \in { "fetch", "returned" }
           /\ delay' = delay + 1
      /\ (pc = "search" /\ h_searches = 0) => delay' = delay
      /\ pc' = "exited" => delay' = delay
      /\ pc \in { "fetch", "backoff", "item", "call" } => delay' = delay
    ]_vars

\* C17 witness: a call whose first search succeeded, after an inter-item
\* sleep: the delay is what it was when the call began.
C17_Wit ==
  /\ pc = "fetch"
  /\ ~had_errors
  /\ h_searches = 1
  /\ h_sleep > 0
  /\ delay = h_delay0

\* C19: every backoff wait is followed by another search of the same call:
\* a call that ends the process after failed searches has made max_retries
\* searches and max_retries - 1 waits.
C19_Claim ==
  (pc = "exited" /\ SearchIndexerError) =>
    (h_searches = max_retries /\ Len(h_waits) = max_retries - 1)

\* C20: a verify call fetches nothing while it searches and waits, and
\* searches no more once it fetched; after a search with r results (0..5)
\* it fetches the Link of result 1, then 2, ... each once, goes on after a
\* match, and returns when exactly r were fetched.
C20_Thm ==
  /\ pc \in { "search", "backoff" } => h_links = <<>>
  /\ h_links # <<>> => pc \in { "fetch", "returned" }
  /\ pc \in { "fetch", "returned" } =>
       /\ Len(raw_results.val) <= 5
       /\ h_links = [k \in 1..(idx - 1) |-> raw_results.val[k].Link]
       /\ Len(h_names) = Len(h_links)
       /\ \A j, k \in 1..Len(raw_results.val) :
            raw_results.val[j].Link = raw_results.val[k].Link => j = k
  /\ pc = "fetch" => Len(h_links) < Len(raw_results.val)
  /\ pc = "returned" => Len(h_links) = Len(raw_results.val)

\* C20 witness: a call returns after 5 fetches although the first result
\* already matched.
C20_Wit ==
  /\ pc = "returned"
  /\ Len(h_links) = 5
  /\ ContainsCI(h_names[1], query)

\* what a call of search_and_verify gives its caller
Outcome(s) ==
  CASE s.pc = "returned" -> IF s.found_match THEN "true" ELSE "false"
    [] s.pc \in { "fatal", "raised" } -> "abort"
    [] OTHER -> "running"

\* URL-decoding once (urllib.parse.unquote_plus): "+" is a space, "%" and
\* two hex digits are the character they number, anything else is itself
RECURSIVE unquote_plus(_)
unquote_plus(s) ==
  IF s = <<>> THEN <<>>
  ELSE IF Head(s) = "+" THEN << " " >> \o unquote_plus(Tail(s))
  ELSE IF Len(s) >= 3 /\ SubSeq(s, 1, 3) = << "%", "2", "B" >>
         THEN << "+" >> \o unquote_plus(SubSeq(s, 4, Len(s)))
  ELSE IF Len(s) >= 3 /\ SubSeq(s, 1, 3) = << "%", "2", "5" >>
         THEN << "%" >> \o unquote_plus(SubSeq(s, 4, Len(s)))
  ELSE IF Len(s) >= 3 /\ SubSeq(s, 1, 3) = << "%", "2", "0" >>
         THEN << " " >> \o unquote_plus(SubSeq(s, 4, Len(s)))
  ELSE << Head(s) >> \o unquote_plus(Tail(s))

\* C16: two calls of search_and_verify with the same query that receive the
\* same responses are at the same place, have made the same network calls
\* and give the same outcome, whatever self.delay was in each; no step of a
\* call changes its query.
C16_Thm ==
  /\ [](/\ va.pc = vb.pc
        /\ va.calls = vb.calls
        /\ Outcome(va) = Outcome(vb)
        /\ va.found_match = vb.found_match
        /\ va.raw_results = vb.raw_results)
  /\ [][ /\ va'.query = va.query
         /\ vb'.query = vb.query
         /\ va'.delay - va.delay = vb'.delay - vb.delay ]_vars

\* C16 witness: two calls that began with different delays, one below the
\* floor of the backoff and one above it, failed a search, waited, searched
\* again and returned a match after the same fetches.
C16_Wit ==
  /\ va.pc = "returned" /\ va.found_match
  /\ va.delay < 4 /\ vb.delay > 4 + 1
  /\ va.retry_delay # vb.retry_delay
  /\ va.had_errors
  /\ Len(va.calls) >= 4
  /\ va.calls = vb.calls

\* C18: decoding the Query parameter of the request that was sent, once,
\* gives the query search_tracker was called with.
C18_Claim ==
  url_pc = "sent" => unquote_plus(sent_query) = url_query

\* the text after the last "-" of name, the empty string when it has none
RECURSIVE AfterLastDash(_)
AfterLastDash(name) ==
  IF name = <<>> THEN <<>>
  ELSE LET rest == Tail(name)
       IN IF \E k \in 1..Len(rest) : rest[k] = "-" THEN AfterLastDash(rest)
          ELSE IF Head(name) = "-" THEN rest
          ELSE <<>>

\* the items whose text after the last "-" is no excluded group, in order
KeptOf(its, groups) ==
  SelectSeq(its, LAMBDA it : \A g \in 1..Len(groups) :
                               groups[g] # AfterLastDash(it))

\* C21: filter_items_by_group returns, in their order, exactly the items
\* whose text after the last "-" ("" without a "-") is not an excluded
\* group, and counts the others: kept + skipped = Len(items); with no
\* excluded groups it returns every item and 0.  The inputs are not changed.
C21_Thm ==
  /\ flt_pc = "loop" =>
       /\ flt_k <= Len(flt_items) + 1
       /\ filtered_items =
            KeptOf(SubSeq(flt_items, 1, flt_k - 1), excluded_groups)
       /\ Len(filtered_items) + skipped_count = flt_k - 1
  /\ flt_pc = "returned" =>
       /\ filtered_items = KeptOf(flt_items, excluded_groups)
       /\ Len(filtered_items) + skipped_count = Len(flt_items)
       /\ excluded_groups = <<>> =>
            filtered_items = flt_items /\ skipped_count = 0

\* C21 witness: a call returned with an item of two dashes skipped, an item
\* without a dash kept and an item whose group differs in case only kept.
C21_Wit ==
  /\ flt_pc = "returned"
  /\ flt_items = << << "a", "-", "a" >>, << "A", "-", "a", "-", "A" >>,
                    << "a" >> >>
  /\ excluded_groups = << << "a", "-", "A" >>, << "A" >> >>
  /\ filtered_items = << << "a", "-", "a" >>, << "a" >> >>
  /\ skipped_count = 1
====
